---- MODULE Spec2Model ----
(***************************************************************************)
(* elkridge: an SQLite database mounted as a filesystem.                   *)
(*                                                                         *)
(* The state is the content of the database behind the connection that     *)
(* Elkridge holds (src/src/main.rs:36-38): which tables exist, and the     *)
(* rows of Inode and Path.  Every operation of BasicFilesystem             *)
(* (src/src/basic.rs) is one action; the SQL statements are modelled by    *)
(* what SQLite does with them (name resolution at prepare time, INSERT OR  *)
(* IGNORE, rowid allocation, typed column reads of rusqlite).              *)
(***************************************************************************)
EXTENDS Integers, Sequences, FiniteSets, TLC

(***************************************************************************)
(* Bounds of the model.                                                    *)
(***************************************************************************)
MaxInodes == 2      \* Inode rows the model lets mkdir create
MaxParent == 1      \* parent / inode arguments range over 0..MaxParent
MaxOffset == 2      \* read offsets range over 0..MaxOffset

Parents == 0 .. MaxParent
Names   == {"docs", ""}
Inos    == 0 .. MaxInodes
Clients == {1, 2}
Offsets == 0 .. MaxOffset
Sizes   == {4}

(***************************************************************************)
(* Program constants.                                                      *)
(***************************************************************************)
DefaultKind == 4          \* Inode.kind DEFAULT 4
DefaultPerm == 420        \* Inode.perm DEFAULT 420
DirectoryKind == 3        \* kind code of a directory
RootInode == 0            \* INSERT ... Inode(inode, kind) VALUES (0, 3)
U16Max == 2^16 - 1        \* FileAttr.perm is a u16
I8Max == 2^7 - 1          \* filetype_from_code takes an i8

\* mode arguments: 0o755, and a u32 that does not fit FileAttr.perm
Modes == {493, 65536}
\* the mode of the two requests that are outstanding at once
RaceModes == {493}

VARIABLES
    tables,     \* names of the tables that exist in the database
    Inode,      \* Inode table: inode id -> [kind, perm]
    Path,       \* Path table: set of rows [inode, parent, name]
    Page,       \* Page table: set of rows [inode, start, finish, content]
    newResult,  \* what Elkridge::new returned: "Ok" or "Err"
    last,       \* the last mkdir_basic / rmdir_basic call and its result
    obs,        \* the last read-only call since `last`, and its result
    race        \* two mkdir requests outstanding at once (SpecConc)

vars == <<tables, Inode, Path, Page, newResult, last, obs, race>>

(***************************************************************************)
(* Schema, as written in the DDL of Elkridge::new.                         *)
(***************************************************************************)
InodeColumns == {"inode", "size", "blocks", "atime", "mtime", "ctime",
                 "crtime", "kind", "perm", "uid", "gid", "rdev", "flags"}
PathColumns == {"inode", "parent", "name"}
PageColumns == {"inode", "start", "finish", "content"}
\* columns the CHECK constraints of Page refer to
PageCheckColumns == {"offset"}
\* column list and number of values of the root Path INSERT
RootPathInsertColumns == {"inode", "parent", "name", "kind"}
RootPathInsertValues == 3

EmptyDb == [tables |-> {}, Inode |-> <<>>, Path |-> {}, Page |-> {}]

StmtOk(db) == [ok |-> TRUE, db |-> db]
StmtErr(db) == [ok |-> FALSE, db |-> db]

\* CHECK ( length(name) > 0 ) of Path
PathCheck(name) == Len(name) > 0

\* rowid SQLite gives a row inserted without a value for INTEGER PRIMARY KEY
NextRowid(rows) ==
    IF DOMAIN rows = {} THEN 1
    ELSE (CHOOSE m \in DOMAIN rows : \A k \in DOMAIN rows : k <= m) + 1

\* INSERT OR IGNORE INTO Inode: a row whose primary key exists is skipped
InsertInode(db, id, kind, perm) ==
    IF id \in DOMAIN db.Inode THEN db
    ELSE [db EXCEPT !.Inode = (id :> [kind |-> kind, perm |-> perm]) @@ @]

\* INSERT OR IGNORE INTO Path: a row that violates the primary key (inode)
\* or the CHECK on name is skipped; foreign keys are not enforced (the
\* connection never sets PRAGMA foreign_keys)
InsertPath(db, inode, parent, name) ==
    IF (\E p \in db.Path : p.inode = inode) \/ ~PathCheck(name) THEN db
    ELSE [db EXCEPT !.Path = @ \cup
            {[inode |-> inode, parent |-> parent, name |-> name]}]

\* the k-th statement of the batch in Elkridge::new
NumStmts == 7
BatchStmt(k, db) ==
    CASE k = 1 -> StmtOk([db EXCEPT !.tables = @ \cup {"Inode"}])
      [] k = 2 -> StmtOk([db EXCEPT !.tables = @ \cup {"Path"}])
      [] k = 3 -> IF "Path" \in db.tables THEN StmtOk(db) ELSE StmtErr(db)
      [] k = 4 -> IF "Page" \in db.tables THEN StmtOk(db)
                  ELSE IF PageCheckColumns \subseteq PageColumns
                       THEN StmtOk([db EXCEPT !.tables = @ \cup {"Page"}])
                       ELSE StmtErr(db)
      [] k = 5 -> IF "Page" \in db.tables THEN StmtOk(db) ELSE StmtErr(db)
      [] k = 6 -> IF "Inode" \in db.tables
                  THEN StmtOk(InsertInode(db, RootInode, DirectoryKind, DefaultPerm))
                  ELSE StmtErr(db)
      [] k = 7 -> IF /\ "Path" \in db.tables
                     /\ RootPathInsertColumns \subseteq PathColumns
                     /\ Cardinality(RootPathInsertColumns) = RootPathInsertValues
                  THEN StmtOk(InsertPath(db, RootInode, RootInode, "/"))
                  ELSE StmtErr(db)

\* Connection::execute_batch: the statements run in order, each committed
\* on its own; the first error ends the batch
RECURSIVE execute_batch(_, _)
execute_batch(db, k) ==
    IF k > NumStmts THEN StmtOk(db)
    ELSE LET r == BatchStmt(k, db)
         IN  IF r.ok THEN execute_batch(r.db, k + 1) ELSE r

\* Elkridge::new
new(db) ==
    LET r == execute_batch(db, 1)
    IN  [result |-> IF r.ok THEN "Ok" ELSE "Err", db |-> r.db]

(***************************************************************************)
(* Results.                                                                *)
(***************************************************************************)
NoAttr == [ino |-> -1, kind |-> "None", perm |-> 0, nlink |-> 0]
OkAttr(a) ==
    [ok |-> TRUE, err |-> "", attr |-> a, entries |-> <<>>, data |-> <<>>]
OkEntries(es) ==
    [ok |-> TRUE, err |-> "", attr |-> NoAttr, entries |-> es, data |-> <<>>]
OkData(buf) ==
    [ok |-> TRUE, err |-> "", attr |-> NoAttr, entries |-> <<>>, data |-> buf]
OkUnit ==
    [ok |-> TRUE, err |-> "", attr |-> NoAttr, entries |-> <<>>, data |-> <<>>]
\* err: "SqlError" (statement rejected), "NoRows" (QueryReturnedNoRows),
\*      "OutOfRange" (a column value does not fit the Rust type)
Err(e) ==
    [ok |-> FALSE, err |-> e, attr |-> NoAttr, entries |-> <<>>, data |-> <<>>]

\* the match of generate_fileattr_from_row
KindOfRow(code) ==
    CASE code = 0 -> "NamedPipe"
      [] code = 1 -> "CharDevice"
      [] code = 2 -> "BlockDevice"
      [] code = 3 -> "Directory"
      [] code = 4 -> "RegularFile"
      [] code = 5 -> "Symlink"
      [] code = 6 -> "Socket"
      [] OTHER -> "RegularFile"

filetype_from_code(code) ==
    CASE code = 0 -> "NamedPipe"
      [] code = 1 -> "CharDevice"
      [] code = 2 -> "BlockDevice"
      [] code = 3 -> "Directory"
      [] code = 4 -> "RegularFile"
      [] code = 5 -> "Symlink"
      [] code = 6 -> "Socket"
      [] OTHER -> "RegularFile"

\* (SELECT count(*) FROM Path WHERE Path.inode = Inode.inode) AS nlink
CountLinksConstant(db, ino) == 1
CountLinks(db, ino) == Cardinality({p \in db.Path : p.inode = ino})

\* generate_fileattr_from_row, for the row of inode `ino` with its nlink
generate_fileattr_from_row(db, ino, nlink) ==
    IF db.Inode[ino].perm > U16Max THEN Err("OutOfRange")
    ELSE OkAttr([ino |-> ino,
                 kind |-> KindOfRow(db.Inode[ino].kind),
                 perm |-> db.Inode[ino].perm,
                 nlink |-> nlink])

\* getattr_basic
getattr_basic(db, ino) ==
    IF ~({"Inode", "Path"} \subseteq db.tables) THEN Err("SqlError")
    ELSE IF ino \notin DOMAIN db.Inode THEN Err("NoRows")
    ELSE generate_fileattr_from_row(db, ino, CountLinks(db, ino))

\* lookup_basic: the query selects FROM Inode only, and names the columns
\* parent and name in its WHERE clause
LookupWhereColumns == {"parent", "name"}
lookup_basic(db, parent, name) ==
    IF ~({"Inode", "Path"} \subseteq db.tables) THEN Err("SqlError")
    ELSE IF ~(LookupWhereColumns \subseteq InodeColumns) THEN Err("SqlError")
    ELSE Err("NoRows")


\* one DirectoryEntry of readdir_basic; the kind is decoded from the value
\* of the column "inode"
DirectoryEntry(p) ==
    [ino |-> p.inode, offset |-> 0,
     kind |-> filetype_from_code(p.inode), name |-> p.name]

\* rows in the order SQLite returns them: Path__parent is walked for the
\* given parent, within which the rows come by ascending rowid (inode)
RECURSIVE RowsInOrder(_)
RowsInOrder(rows) ==
    IF rows = {} THEN <<>>
    ELSE LET first == CHOOSE p \in rows : \A q \in rows : p.inode <= q.inode
         IN  <<first>> \o RowsInOrder(rows \ {first})

\* SELECT inode, name, kind FROM Path NATURAL JOIN Inode WHERE Path.parent = ?
ChildRows(db, ino) ==
    {p \in db.Path : p.parent = ino /\ p.inode \in DOMAIN db.Inode}

\* readdir_basic
readdir_basic(db, ino) ==
    IF ~({"Inode", "Path"} \subseteq db.tables) THEN Err("SqlError")
    ELSE LET rows == RowsInOrder(ChildRows(db, ino))
         IN  IF \E i \in 1 .. Len(rows) : rows[i].inode > I8Max
             THEN Err("OutOfRange")
             ELSE OkEntries([i \in 1 .. Len(rows) |-> DirectoryEntry(rows[i])])

\* SELECT content, start FROM Page
\*   WHERE inode = ? AND start <= ? AND finish >= ? ORDER BY start
\* bound to (ino, offset, offset + size)
ReadRows(db, ino, offset, size) ==
    {g \in db.Page : g.inode = ino /\ g.start <= offset /\ g.finish >= offset + size}

RECURSIVE PagesInOrder(_)
PagesInOrder(rows) ==
    IF rows = {} THEN <<>>
    ELSE LET first == CHOOSE g \in rows : \A h \in rows : g.start <= h.start
         IN  <<first>> \o PagesInOrder(rows \ {first})

\* the rows the row closure is run on: query_and_then returns a lazy
\* iterator (AndThenRows) which the statement drops without advancing it,
\* so no row is stepped and buf.extend_from_slice never runs
RowsStepped(rows) == <<>>

\* buf after extend_from_slice of the content of each stepped row
RECURSIVE Concat(_)
Concat(rows) ==
    IF rows = <<>> THEN <<>> ELSE Head(rows).content \o Concat(Tail(rows))

\* read_basic
read_basic(db, ino, offset, size) ==
    IF "Page" \notin db.tables THEN Err("SqlError")
    ELSE OkData(Concat(RowsStepped(PagesInOrder(ReadRows(db, ino, offset, size)))))

\* mkdir_basic: the existence query selects the column "inode" and the
\* row closure reads the column "is_there"; .ok() turns every error of
\* that query into None
NoInode == -1
MkdirSelectColumns == {"inode"}
MkdirReadColumn == "is_there"
maybe_inode(db, parent, name) ==
    LET rows == {p \in db.Path : p.parent = parent /\ p.name = name}
    IN  IF "Path" \notin db.tables THEN NoInode
        ELSE IF rows = {} THEN NoInode
        ELSE IF MkdirReadColumn \notin MkdirSelectColumns THEN NoInode
        ELSE (CHOOSE p \in rows : \A q \in rows : p.inode <= q.inode).inode

\* returns the result and the database the transaction leaves behind
mkdir_basic(db, parent, name, mode) ==
    LET found == maybe_inode(db, parent, name)
        new_inode == NextRowid(db.Inode)
        db1 == InsertInode(db, new_inode, DefaultKind, mode)
        db2 == InsertPath(db1, new_inode, parent, name)
    IN  IF found # NoInode
        THEN [res |-> getattr_basic(db, found), db |-> db]
        ELSE IF ~({"Inode", "Path"} \subseteq db.tables)
        THEN [res |-> Err("SqlError"), db |-> db]
        ELSE [res |-> getattr_basic(db2, new_inode), db |-> db2]

\* rmdir_basic: DELETE FROM Path WHERE parent=? AND name = ?
DeleteOneRow(db, parent, name) ==
    LET rows == {p \in db.Path : p.parent = parent /\ p.name = name}
    IN  IF rows = {} THEN db.Path
        ELSE db.Path \ {CHOOSE p \in rows : \A q \in rows : p.inode <= q.inode}
DeleteByParent(db, parent, name) ==
    {p \in db.Path : p.parent # parent}
DeleteRows(db, parent, name) ==
    {p \in db.Path : ~(p.parent = parent /\ p.name = name)}

rmdir_basic_reclaiming(db, parent, name) ==
    LET kept == DeleteRows(db, parent, name)
        gone == {p.inode : p \in db.Path \ kept}
    IN  IF "Path" \notin db.tables
        THEN [res |-> Err("SqlError"), db |-> db]
        ELSE [res |-> OkUnit,
              db |-> [db EXCEPT !.Path = kept,
                                !.Inode = [i \in DOMAIN @ \ gone |-> @[i]]]]
rmdir_basic(db, parent, name) ==
    IF "Path" \notin db.tables
    THEN [res |-> Err("SqlError"), db |-> db]
    ELSE [res |-> OkUnit, db |-> [db EXCEPT !.Path = DeleteRows(db, parent, name)]]

(***************************************************************************)
(* impl Filesystem for Elkridge: the handlers the driver calls.  Each       *)
(* computes a result with its own copy of the query and sends replies.     *)
(***************************************************************************)
TTL == [sec |-> 1, nsec |-> 0]
NoTtl == [sec |-> 0, nsec |-> 0]

\* the replies sent for one request: how many, and the content of the last
NoReply == [sent |-> 0, kind |-> "none", ttl |-> NoTtl, errno |-> "",
            attr |-> NoAttr, data |-> <<>>, entries |-> <<>>]
\* reply.entry(&TTL, &res, 0)
reply_entry(a) == [NoReply EXCEPT !.sent = 1, !.kind = "entry", !.ttl = TTL, !.attr = a]
\* reply.attr(&TTL, &res)
reply_attr(a) == [NoReply EXCEPT !.sent = 1, !.kind = "attr", !.ttl = TTL, !.attr = a]
\* reply.data(&buf)
reply_data(buf) == [NoReply EXCEPT !.sent = 1, !.kind = "data", !.data = buf]
\* reply.ok() of a ReplyDirectory to which `added` was added
reply_ok(added) == [NoReply EXCEPT !.sent = 1, !.kind = "directory", !.entries = added]
\* reply.error(ENOENT) in the Err arm, whatever the error e is
reply_error_by_cause(e) ==
    [NoReply EXCEPT !.sent = 1, !.kind = "error",
                    !.errno = IF e = "NoRows" THEN "ENOENT" ELSE "EIO"]
reply_error(e) == [NoReply EXCEPT !.sent = 1, !.kind = "error", !.errno = "ENOENT"]
\* a method the impl block does not define: the trait's provided method
\* answers the request with ENOSYS
reply_not_implemented == [NoReply EXCEPT !.sent = 1, !.kind = "error", !.errno = "ENOSYS"]

\* Filesystem::lookup: search_result
lookup_search_result(db, parent, name) ==
    IF ~({"Inode", "Path"} \subseteq db.tables) THEN Err("SqlError")
    ELSE IF ~(LookupWhereColumns \subseteq InodeColumns) THEN Err("SqlError")
    ELSE Err("NoRows")

\* Filesystem::getattr: search_result
getattr_search_result(db, ino) ==
    IF ~({"Inode", "Path"} \subseteq db.tables) THEN Err("SqlError")
    ELSE IF ino \notin DOMAIN db.Inode THEN Err("NoRows")
    ELSE generate_fileattr_from_row(db, ino, CountLinks(db, ino))

\* Filesystem::read: inner; the query is SELECT content, offset_byte FROM Page
ReadSelectColumns == {"content", "offset_byte"}
read_inner(db, ino, offset, size) ==
    IF "Page" \notin db.tables THEN Err("SqlError")
    ELSE IF ~(ReadSelectColumns \subseteq PageColumns) THEN Err("SqlError")
    ELSE OkData(Concat(RowsStepped(PagesInOrder(ReadRows(db, ino, offset, size)))))

\* Filesystem::readdir: inner; reply.add is the row closure of
\* query_and_then, whose iterator is dropped without being advanced
readdir_inner(db, ino) ==
    IF ~({"Inode", "Path"} \subseteq db.tables) THEN Err("SqlError")
    ELSE LET rows == RowsStepped(RowsInOrder(ChildRows(db, ino)))
         IN  IF \E i \in 1 .. Len(rows) : rows[i].inode > I8Max
             THEN Err("OutOfRange")
             ELSE OkEntries([i \in 1 .. Len(rows) |-> DirectoryEntry(rows[i])])

\* the match on the result, in each handler
lookup(db, parent, name) ==
    LET search_result == lookup_search_result(db, parent, name)
    IN  IF search_result.ok THEN reply_entry(search_result.attr)
        ELSE reply_error(search_result.err)

getattr(db, ino) ==
    LET search_result == getattr_search_result(db, ino)
    IN  IF search_result.ok THEN reply_attr(search_result.attr)
        ELSE reply_error(search_result.err)

read(db, ino, offset, size) ==
    LET inner == read_inner(db, ino, offset, size)
    IN  IF inner.ok THEN reply_data(inner.data) ELSE reply_error(inner.err)

readdir(db, ino) ==
    LET inner == readdir_inner(db, ino)
    IN  IF inner.ok THEN reply_ok(inner.entries) ELSE reply_error(inner.err)

\* mkdir and rmdir are not among the methods of the impl block
mkdir(db, parent, name, mode) == reply_not_implemented
rmdir(db, parent, name) == reply_not_implemented

(***************************************************************************)
(* The state machine.                                                      *)
(***************************************************************************)
Db == [tables |-> tables, Inode |-> Inode, Path |-> Path, Page |-> Page]

\* a call record: the arguments, the result, and what the call met and did:
\* matched = Path rows for (parent, name) before the call, fresh = the
\* database was as initialization left it, created = Inode rows added,
\* targets = the inodes of the Path rows the call removed
NoCall == [op |-> "none", parent |-> 0, name |-> "", mode |-> 0,
           matched |-> 0, fresh |-> FALSE, created |-> 0, targets |-> {},
           res |-> OkUnit]
\* a read-only call: the operation, its arguments (arg is the parent or the
\* inode) and its result; for a handler of the Filesystem trait, res is the
\* result the handler computed and reply is what it sent
Observed(op, arg, name, offset, size, res) ==
    [op |-> op, arg |-> arg, name |-> name, offset |-> offset, size |-> size,
     res |-> res, reply |-> NoReply]
Handled(op, arg, name, offset, size, res, reply) ==
    [op |-> op, arg |-> arg, name |-> name, offset |-> offset, size |-> size,
     res |-> res, reply |-> reply]
NoObs == Observed("none", 0, "", 0, 0, OkUnit)
NoRace == [started |-> FALSE, pending |-> {}, parent |-> 0, name |-> "",
           mode |-> 0, inodes0 |-> {}, rows0 |-> 0,
           res |-> [c \in Clients |-> Err("pending")]]

\* Page rows a database file can hold when it is opened.  Nothing in this
\* program writes Page rows; the content is a sequence of bytes.
PageInodes == {5, 6}
PageUniverse ==
    {[inode |-> 5, start |-> 0, finish |-> 4, content |-> <<"a", "b", "c", "d">>],
     [inode |-> 5, start |-> 4, finish |-> 8, content |-> <<"e", "f", "g", "h">>],
     [inode |-> 5, start |-> 2, finish |-> 6, content |-> <<"C", "D", "E", "F">>],
     [inode |-> 5, start |-> 1, finish |-> 9, content |-> <<"w">>],
     [inode |-> 6, start |-> 0, finish |-> 8, content |-> <<"x", "y">>]}

\* no request is waiting for the connection
RaceIdle == race.pending = {}

\* the database Elkridge::new leaves behind on a fresh file; the operations
\* of BasicFilesystem are then applied to that connection
Init ==
    LET r == new(EmptyDb)
    IN  /\ tables = r.db.tables
        /\ Inode = r.db.Inode
        /\ Path = r.db.Path
        /\ Page = r.db.Page
        /\ newResult = r.result
        /\ last = NoCall
        /\ obs = NoObs
        /\ race = NoRace

FreshDb == new(EmptyDb).db

\* what a call of mkdir_basic does to the state
MkdirStep(parent, name, mode) ==
    LET r == mkdir_basic(Db, parent, name, mode)
    IN  /\ Cardinality(DOMAIN Inode) < MaxInodes
        /\ tables' = r.db.tables
        /\ Inode' = r.db.Inode
        /\ Path' = r.db.Path
        /\ Page' = r.db.Page
        /\ last' = [op |-> "mkdir", parent |-> parent, name |-> name,
                    mode |-> mode,
                    matched |-> Cardinality({p \in Path : p.parent = parent /\ p.name = name}),
                    fresh |-> Db = FreshDb,
                    created |-> Cardinality(DOMAIN r.db.Inode \ DOMAIN Inode),
                    targets |-> {},
                    res |-> r.res]
        /\ obs' = NoObs
        /\ UNCHANGED newResult

Mkdir(parent, name, mode) ==
    /\ RaceIdle
    /\ MkdirStep(parent, name, mode)
    /\ race' = NoRace

Rmdir(parent, name) ==
    LET r == rmdir_basic(Db, parent, name)
    IN  /\ RaceIdle
        /\ tables' = r.db.tables
        /\ Inode' = r.db.Inode
        /\ Path' = r.db.Path
        /\ Page' = r.db.Page
        /\ last' = [op |-> "rmdir", parent |-> parent, name |-> name,
                    mode |-> 0,
                    matched |-> Cardinality({p \in Path : p.parent = parent /\ p.name = name}),
                    fresh |-> Db = FreshDb,
                    created |-> Cardinality(DOMAIN r.db.Inode \ DOMAIN Inode),
                    targets |-> {p.inode : p \in Path \ r.db.Path},
                    res |-> r.res]
        /\ obs' = NoObs
        /\ race' = NoRace
        /\ UNCHANGED newResult

Lookup(parent, name) ==
    /\ RaceIdle
    /\ obs' = Observed("lookup", parent, name, 0, 0,
                       lookup_basic(Db, parent, name))
    /\ UNCHANGED <<tables, Inode, Path, Page, newResult, last, race>>

Getattr(ino) ==
    /\ RaceIdle
    /\ obs' = Observed("getattr", ino, "", 0, 0, getattr_basic(Db, ino))
    /\ UNCHANGED <<tables, Inode, Path, Page, newResult, last, race>>

Readdir(ino) ==
    /\ RaceIdle
    /\ obs' = Observed("readdir", ino, "", 0, 0, readdir_basic(Db, ino))
    /\ UNCHANGED <<tables, Inode, Path, Page, newResult, last, race>>

Read(ino, offset, size) ==
    /\ RaceIdle
    /\ obs' = Observed("read", ino, "", offset, size,
                       read_basic(Db, ino, offset, size))
    /\ UNCHANGED <<tables, Inode, Path, Page, newResult, last, race>>

\* the handlers of the Filesystem trait, called by the driver
FsLookup(parent, name) ==
    /\ RaceIdle
    /\ obs' = Handled("fs_lookup", parent, name, 0, 0,
                      lookup_search_result(Db, parent, name),
                      lookup(Db, parent, name))
    /\ UNCHANGED <<tables, Inode, Path, Page, newResult, last, race>>

FsGetattr(ino) ==
    /\ RaceIdle
    /\ obs' = Handled("fs_getattr", ino, "", 0, 0,
                      getattr_search_result(Db, ino), getattr(Db, ino))
    /\ UNCHANGED <<tables, Inode, Path, Page, newResult, last, race>>

FsRead(ino, offset, size) ==
    /\ RaceIdle
    /\ obs' = Handled("fs_read", ino, "", offset, size,
                      read_inner(Db, ino, offset, size),
                      read(Db, ino, offset, size))
    /\ UNCHANGED <<tables, Inode, Path, Page, newResult, last, race>>

FsReaddir(ino) ==
    /\ RaceIdle
    /\ obs' = Handled("fs_readdir", ino, "", 0, 0,
                      readdir_inner(Db, ino), readdir(Db, ino))
    /\ UNCHANGED <<tables, Inode, Path, Page, newResult, last, race>>

FsMkdir(parent, name, mode) ==
    /\ RaceIdle
    /\ obs' = Handled("fs_mkdir", parent, name, 0, 0, Err("NotImplemented"),
                      mkdir(Db, parent, name, mode))
    /\ UNCHANGED <<tables, Inode, Path, Page, newResult, last, race>>

FsRmdir(parent, name) ==
    /\ RaceIdle
    /\ obs' = Handled("fs_rmdir", parent, name, 0, 0, Err("NotImplemented"),
                      rmdir(Db, parent, name))
    /\ UNCHANGED <<tables, Inode, Path, Page, newResult, last, race>>

Next ==
    \/ \E parent \in Parents, name \in Names, mode \in Modes : Mkdir(parent, name, mode)
    \/ \E parent \in Parents, name \in Names : Rmdir(parent, name)
    \/ \E parent \in Parents, name \in Names : Lookup(parent, name)
    \/ \E ino \in Inos : Getattr(ino)
    \/ \E ino \in Parents : Readdir(ino)
    \/ \E ino \in PageInodes, offset \in Offsets, size \in Sizes :
          Read(ino, offset, size)
    \/ \E parent \in Parents, name \in Names : FsLookup(parent, name)
    \/ \E ino \in Inos : FsGetattr(ino)
    \/ \E ino \in PageInodes, offset \in Offsets, size \in Sizes :
          FsRead(ino, offset, size)
    \/ \E ino \in Parents : FsReaddir(ino)
    \/ \E parent \in Parents, name \in Names, mode \in Modes :
          FsMkdir(parent, name, mode)
    \/ \E parent \in Parents, name \in Names : FsRmdir(parent, name)

Spec == Init /\ [][Next]_vars

(***************************************************************************)
(* Two clients with a mkdir request each for the same (parent, name), both *)
(* outstanding before either is served.  Every handler takes &mut self on  *)
(* the one connection, so the two transactions run one after the other,    *)
(* in either order.                                                        *)
(***************************************************************************)
IssueConcurrent(parent, name, mode) ==
    /\ RaceIdle
    /\ Cardinality(DOMAIN Inode) + Cardinality(Clients) <= MaxInodes
    /\ race' = [started |-> TRUE, pending |-> Clients, parent |-> parent,
                name |-> name, mode |-> mode,
                inodes0 |-> DOMAIN Inode,
                rows0 |-> Cardinality({p \in Path : p.parent = parent /\ p.name = name}),
                res |-> [c \in Clients |-> Err("pending")]]
    /\ UNCHANGED <<tables, Inode, Path, Page, newResult, last, obs>>

ServeConcurrent(c) ==
    /\ c \in race.pending
    /\ MkdirStep(race.parent, race.name, race.mode)
    /\ race' = [race EXCEPT !.pending = @ \ {c}, !.res[c] = last'.res]

NextConc ==
    \/ \E parent \in Parents, name \in Names, mode \in Modes : Mkdir(parent, name, mode)
    \/ \E parent \in Parents, name \in Names : Rmdir(parent, name)
    \/ \E parent \in Parents, name \in Names, mode \in RaceModes :
          IssueConcurrent(parent, name, mode)
    \/ \E c \in Clients : ServeConcurrent(c)

SpecConc == Init /\ [][NextConc]_vars


(***************************************************************************)
(* Reads of a database file that was opened with the three tables present  *)
(* and Page rows in it: Elkridge::new is run on it as on any other file.   *)
(***************************************************************************)
InitRead ==
    \E pages \in SUBSET PageUniverse :
      LET r == new([tables |-> {"Inode", "Path", "Page"}, Inode |-> <<>>,
                    Path |-> {}, Page |-> pages])
      IN  /\ tables = r.db.tables
          /\ Inode = r.db.Inode
          /\ Path = r.db.Path
          /\ Page = r.db.Page
          /\ newResult = r.result
          /\ last = NoCall
          /\ obs = NoObs
          /\ race = NoRace

NextRead ==
    \/ \E ino \in PageInodes, offset \in Offsets, size \in Sizes :
          Read(ino, offset, size)
    \/ \E ino \in PageInodes, offset \in Offsets, size \in Sizes :
          FsRead(ino, offset, size)

SpecRead == InitRead /\ [][NextRead]_vars

(***************************************************************************)
(* Properties.                                                             *)
(***************************************************************************)
PathRowsOf(parent, name) == {p \in Path : p.parent = parent /\ p.name = name}
LinksTo(ino) == {p \in Path : p.inode = ino}

\* C1: a mkdir call that follows a successful mkdir call with the same
\* parent, name and mode adds no Inode row (so the two calls add at most
\* one in total), succeeds, and returns the inode id the first returned.
C1_MkdirIdempotent ==
    [][(/\ last.op = "mkdir" /\ last.res.ok
        /\ last'.op = "mkdir" /\ obs' = NoObs
        /\ last'.parent = last.parent
        /\ last'.name = last.name
        /\ last'.mode = last.mode)
       => (/\ last.created + last'.created <= 1
           /\ last'.res.ok
           /\ last'.res.attr.ino = last.res.attr.ino)]_vars

\* C2: a lookup of (parent, name) right after a successful
\* mkdir(parent, name, mode) succeeds and returns the inode id mkdir
\* returned, with permission bits equal to mode.
C2_MkdirThenLookup ==
    (/\ last.op = "mkdir" /\ last.res.ok
     /\ obs.op = "lookup" /\ obs.arg = last.parent /\ obs.name = last.name)
    => (/\ obs.res.ok
        /\ obs.res.attr.ino = last.res.attr.ino
        /\ obs.res.attr.perm = last.mode)

\* C3: once two mkdir requests for the same (parent, name), outstanding at
\* the same time on a database with no Path row for it, have both been
\* served, exactly one new Inode row and exactly one Path row for
\* (parent, name) exist, and both callers got success with the same inode id.
C3_ConcurrentMkdirConverges ==
    (race.started /\ race.pending = {} /\ race.rows0 = 0)
    => (/\ Cardinality(DOMAIN Inode \ race.inodes0) = 1
        /\ Cardinality(PathRowsOf(race.parent, race.name)) = 1
        /\ \A c \in Clients : race.res[c].ok
        /\ \A c, d \in Clients : race.res[c].attr.ino = race.res[d].attr.ino)

\* C4: no two Path rows have the same (parent, name).
C4_NameUniqueInParent ==
    \A p, q \in Path : (p.parent = q.parent /\ p.name = q.name) => p = q

\* C5: a successful mkdir(parent, name, mode) that found no Path row for
\* (parent, name) returns kind = directory, permission bits = mode and
\* link count = 1.
C5_MkdirResult ==
    (last.op = "mkdir" /\ last.matched = 0 /\ last.res.ok)
    => (/\ last.res.attr.kind = "Directory"
        /\ last.res.attr.perm = last.mode
        /\ last.res.attr.nlink = 1)

\* C6: lookup(parent, name) succeeds with the attributes of the inode a
\* Path row (parent, name) links when there is such a row, and fails when
\* there is none.
C6_LookupCorrect ==
    obs.op = "lookup"
    => LET rows == PathRowsOf(obs.arg, obs.name)
       IN  /\ rows # {} =>
                /\ obs.res.ok
                /\ \E p \in rows :
                     /\ p.inode \in DOMAIN Inode
                     /\ obs.res.attr.ino = p.inode
                     /\ obs.res.attr.perm = Inode[p.inode].perm
                     /\ obs.res.attr.nlink = Cardinality(LinksTo(p.inode))
           /\ rows = {} => ~obs.res.ok

\* C7: the link count in the attributes that getattr, lookup and mkdir
\* return for an inode is the number of Path rows whose inode column is
\* that inode id, at the time of the call.
C7_LinkCount ==
    /\ (obs.op \in {"getattr", "lookup"} /\ obs.res.ok)
       => obs.res.attr.nlink = Cardinality(LinksTo(obs.res.attr.ino))
    /\ (last.op = "mkdir" /\ last.res.ok)
       => last.res.attr.nlink = Cardinality(LinksTo(last.res.attr.ino))
    /\ \A ino \in DOMAIN Inode :
         getattr_basic(Db, ino).ok
         => getattr_basic(Db, ino).attr.nlink = Cardinality(LinksTo(ino))

\* getattr has answered for an inode with one link, and an inode with no
\* link exists as well
C7_Witness ==
    /\ obs.op = "getattr" /\ obs.res.ok /\ obs.res.attr.nlink = 1
    /\ Cardinality(LinksTo(obs.res.attr.ino)) = 1
    /\ \E ino \in DOMAIN Inode : LinksTo(ino) = {}

C9_RootAlwaysExists ==
    /\ newResult = "Ok"
    /\ RootInode \in DOMAIN Inode
    /\ Inode[RootInode].kind = DirectoryKind
    /\ [inode |-> RootInode, parent |-> RootInode, name |-> ""] \in Path
    /\ lookup_basic(Db, RootInode, "").ok
    /\ lookup_basic(Db, RootInode, "").attr.kind = "Directory"

\* C10: after a successful mkdir(0, name, mode) on the database as
\* initialization left it, readdir(0) returns exactly one entry, with the
\* created name and the inode id mkdir returned.
C10_ListingAfterMkdir ==
    (/\ last.op = "mkdir" /\ last.fresh /\ last.parent = RootInode
     /\ last.res.ok
     /\ obs.op = "readdir" /\ obs.arg = RootInode)
    => (/\ obs.res.ok
        /\ Len(obs.res.entries) = 1
        /\ obs.res.entries[1].name = last.name
        /\ obs.res.entries[1].ino = last.res.attr.ino)


\* C11: read(inode, offset, length) succeeds and returns the concatenation,
\* in ascending start order, of the full content of every Page row of the
\* inode whose range [start, finish] overlaps [offset, offset + length].
C11_ContentAssembly ==
    obs.op = "read"
    => /\ obs.res.ok
       /\ obs.res.data =
            Concat(PagesInOrder(
                {g \in Page : /\ g.inode = obs.arg
                              /\ g.start <= obs.offset + obs.size
                              /\ g.finish >= obs.offset}))


AdapterOps == {"fs_lookup", "fs_getattr", "fs_read", "fs_readdir"}
SuccessKind(op) ==
    CASE op = "fs_lookup" -> "entry"
      [] op = "fs_getattr" -> "attr"
      [] op = "fs_read" -> "data"
      [] op = "fs_readdir" -> "directory"

\* C12: each of the handlers lookup, getattr, read and readdir sends exactly
\* one reply: its success reply (with the one constant TTL for entry and
\* attribute replies) when the operation succeeded, and the error ENOENT
\* when it failed, whatever the cause; no other error code is sent.
C12_ErrorCollapse ==
    obs.op \in AdapterOps
    => /\ obs.reply.sent = 1
       /\ obs.res.ok => obs.reply.kind = SuccessKind(obs.op)
       /\ ~obs.res.ok => (obs.reply.kind = "error" /\ obs.reply.errno = "ENOENT")
       /\ obs.reply.kind \in {"entry", "attr"} => obs.reply.ttl = TTL
       /\ obs.reply.kind = "error" => obs.reply.errno = "ENOENT"

\* the lookup handler has failed on a rejected statement, with a Path row
\* for its arguments present, and replied ENOENT
C12_Witness ==
    /\ obs.op = "fs_lookup" /\ obs.res.err = "SqlError"
    /\ PathRowsOf(obs.arg, obs.name) # {}
    /\ obs.reply.sent = 1 /\ obs.reply.errno = "ENOENT"

\* C13: a create-directory request from the driver is answered by running
\* mkdir (the Path row exists afterwards and the reply is an entry with its
\* attributes), and a remove-directory-entry request by running rmdir (no
\* Path row remains and the reply is a success).
C13_ExposedOperations ==
    /\ obs.op = "fs_mkdir"
       => /\ obs.reply.kind = "entry"
          /\ \E p \in PathRowsOf(obs.arg, obs.name) : obs.reply.attr.ino = p.inode
    /\ obs.op = "fs_rmdir"
       => /\ obs.reply.kind # "error"
          /\ PathRowsOf(obs.arg, obs.name) = {}


\* C14: every mkdir call either adds exactly one Inode row together with
\* exactly one Path row that links (parent, name) to that inode, or adds
\* no row at all.
C14_MkdirAtomic ==
    [][(last'.op = "mkdir" /\ obs' = NoObs)
       => \/ /\ Inode' = Inode
             /\ Path' = Path
          \/ \E i \in DOMAIN Inode' \ DOMAIN Inode :
               /\ DOMAIN Inode' = DOMAIN Inode \cup {i}
               /\ Path' = Path \cup {[inode |-> i, parent |-> last'.parent,
                                      name |-> last'.name]}
               /\ Path' # Path]_vars

\* C15: rmdir(parent, name) with no Path row for (parent, name) returns
\* success and leaves the Inode, Path and Page tables unchanged.
C15_LenientRmdir ==
    [][(last'.op = "rmdir" /\ obs' = NoObs /\ PathRowsOf(last'.parent, last'.name) = {})
       => (/\ last'.res.ok
           /\ Inode' = Inode /\ Path' = Path /\ Page' = Page)]_vars

\* rmdir has returned for a (parent, name) that had no Path row, while
\* other Path rows exist
C15_Witness ==
    /\ last.op = "rmdir" /\ last.matched = 0 /\ last.res.ok
    /\ Path # {}

\* C16: rmdir(parent, name) succeeds whether or not the target has
\* children, removes exactly the Path rows of (parent, name) and leaves
\* every Inode row, Page row and other Path row as it was; each target
\* inode keeps its Inode row, and getattr on it, where it succeeded before,
\* still succeeds and reports the link count less the rows removed.
C16_RmdirFrame ==
    [][(last'.op = "rmdir" /\ obs' = NoObs)
       => (/\ last'.res.ok
           /\ Inode' = Inode
           /\ Page' = Page
           /\ Path' = Path \ PathRowsOf(last'.parent, last'.name)
           /\ \A p \in PathRowsOf(last'.parent, last'.name) :
                /\ p.inode \in DOMAIN Inode'
                /\ getattr_basic(Db, p.inode).ok
                   => /\ getattr_basic(Db', p.inode).ok
                      /\ getattr_basic(Db', p.inode).attr.nlink
                           = getattr_basic(Db, p.inode).attr.nlink
                             - Cardinality({q \in PathRowsOf(last'.parent, last'.name) :
                                              q.inode = p.inode})
                      /\ getattr_basic(Db', p.inode).attr.nlink
                           < getattr_basic(Db, p.inode).attr.nlink)]_vars

\* rmdir has removed the entry of an inode that still has a child entry,
\* and getattr on that inode then reported no link
C16_Witness ==
    /\ last.op = "rmdir" /\ last.res.ok
    /\ \E t \in last.targets :
         /\ \E p \in Path : p.parent = t
         /\ obs.op = "getattr" /\ obs.arg = t /\ obs.res.ok
         /\ obs.res.attr.nlink = 0

\* C17: readdir(d) succeeds and returns exactly one entry per Path row
\* whose parent is d, with that row's inode id and name, and with the kind
\* decoded from the kind code of the child's Inode row.
C17_ListingCorrect ==
    obs.op = "readdir"
    => /\ obs.res.ok
       /\ Len(obs.res.entries) = Cardinality({p \in Path : p.parent = obs.arg})
       /\ \A p \in {q \in Path : q.parent = obs.arg} :
            \E i \in 1 .. Len(obs.res.entries) :
              /\ obs.res.entries[i].ino = p.inode
              /\ obs.res.entries[i].name = p.name
              /\ p.inode \in DOMAIN Inode
              /\ obs.res.entries[i].kind = KindOfRow(Inode[p.inode].kind)

\* C18: each handler replies with success exactly when the corresponding
\* result-returning operation returns Ok on the same state and arguments,
\* then with the same value, and with the error exactly when it returns Err.
C18_AdapterEquivalence ==
    /\ obs.op = "fs_lookup"
       => LET b == lookup_basic(Db, obs.arg, obs.name)
          IN  /\ b.ok <=> obs.reply.kind = "entry"
              /\ ~b.ok <=> obs.reply.kind = "error"
              /\ b.ok => obs.reply.attr = b.attr
    /\ obs.op = "fs_getattr"
       => LET b == getattr_basic(Db, obs.arg)
          IN  /\ b.ok <=> obs.reply.kind = "attr"
              /\ ~b.ok <=> obs.reply.kind = "error"
              /\ b.ok => obs.reply.attr = b.attr
    /\ obs.op = "fs_read"
       => LET b == read_basic(Db, obs.arg, obs.offset, obs.size)
          IN  /\ b.ok <=> obs.reply.kind = "data"
              /\ ~b.ok <=> obs.reply.kind = "error"
              /\ b.ok => obs.reply.data = b.data
    /\ obs.op = "fs_readdir"
       => LET b == readdir_basic(Db, obs.arg)
          IN  /\ b.ok <=> obs.reply.kind = "directory"
              /\ ~b.ok <=> obs.reply.kind = "error"
              /\ b.ok => obs.reply.entries = b.entries

\* C19: the inode and the parent of every Path row are ids of Inode rows.
C19_ReferentialIntegrity ==
    \A p \in Path : p.inode \in DOMAIN Inode /\ p.parent \in DOMAIN Inode

====
